---- MODULE Spec2Model ----
(***************************************************************************)
(* A model of the CAMx process-analysis readers of PseudoNetCDF:           *)
(*   camxfiles/irr/Read.py   - class irr, the seeking reaction-rate reader *)
(*   camxfiles/ipr/Memmap.py - class ipr, the mapped process-rate reader   *)
(* The two readers share no state, so each has a specification of its own  *)
(* over its own variables: SpecIrr (open, seek, read, iterate) and         *)
(* SpecLoad (open, loadVars, __var_get) for irr, SpecIpr for ipr.          *)
(***************************************************************************)
EXTENDS Integers, Sequences, FiniteSets, TLC

VARIABLES
    \* ---- irr (Read.py) ----
    file,          \* the irr file on disk: header fields and data records
    st,            \* "new" | "open" | "failed": outcome of irr.__init__
    err,           \* exception raised by the last irr operation, or "none"
    TSTEP,         \* self.TSTEP = self.time_step (HHMM)
    NSTEPS,        \* self.NSTEPS = self.time_step_count
    activedomain,  \* python index into padomains of self.activedomain
    pos,           \* byte position of the record file cursor
    variables,     \* self.variables: key -> array ("TFLAG" or channel number)
    op,            \* the last operation and its arguments
    out,           \* what the last operation returned
    \* ---- ipr (Memmap.py) ----
    ifile,         \* the ipr file on disk
    ist,           \* "new" | "open" | "failed"
    ierr,          \* exception raised by the last ipr operation, or "none"
    rectype,       \* names of self.__ipr_record_type
    varkeys,       \* the key list handed to PseudoNetCDFVariables
    mm,            \* the attribute self.__memmaps: "unset" | "mapped" | "deleted"
    memmaps,       \* the array self.__memmaps names while it is mapped
    released,      \* how many times del self.__memmaps ran
    closes,        \* how many times __del__ ran
    view,          \* the variable the last lookup returned
    iop,           \* the last ipr operation and its argument
    iout           \* the element the last access returned

irrvars == <<file, st, err, TSTEP, NSTEPS, activedomain, pos, variables, op, out>>
iprvars == <<ifile, ist, ierr, rectype, varkeys, mm, memmaps, released, closes, view, iop, iout>>
vars == <<irrvars, iprvars>>

\* ------------------------------------------------------------------------
\* Bounds of the model
\* ------------------------------------------------------------------------
MaxSteps == 3     \* time steps of the generated well-formed irr files
MaxRxns == 2      \* reactions (data channels) per irr record
MaxBlocks == 2    \* time blocks of the generated ipr files
MaxCloses == 2    \* runs of ipr.__del__ on one dataset

Min(a, b) == IF a <= b THEN a ELSE b

\* the tuple <<f[1], ..., f[n]>> of a function f on 1..n
Tab(f, n) == SubSeq(f, 1, n)

\* ------------------------------------------------------------------------
\* numpy arrays of four axes: the shape and the elements in C order
\* ------------------------------------------------------------------------
asize(shape) == shape[1] * shape[2] * shape[3] * shape[4]

\* the flat offset of an index and the index of a flat offset
ravel(shape, ix) == ((ix[1] * shape[2] + ix[2]) * shape[3] + ix[3]) * shape[4] + ix[4]

unravel(shape, x) ==
    <<x \div (shape[2] * shape[3] * shape[4]),
      (x \div (shape[3] * shape[4])) % shape[2],
      (x \div shape[4]) % shape[3],
      x % shape[4]>>

\* the array of a shape and its elements in C order
mkarray(shape, flat) == [shape |-> shape, flat |-> flat]

aget(a, ix) == a.flat[ravel(a.shape, ix) + 1]

indices(shape) ==
    {<<a, b, c, d>> : a \in 0..(shape[1] - 1), b \in 0..(shape[2] - 1),
                      c \in 0..(shape[3] - 1), d \in 0..(shape[4] - 1)}

\* ------------------------------------------------------------------------
\* datetime: strptime / strftime as used by Read.py
\* ------------------------------------------------------------------------
StrpFail == -1

\* _strptime's %y: 00..68 are 2000..2068, 69..99 are 1969..1999
FullYear(yy) == IF yy <= 68 THEN 2000 + yy ELSE 1900 + yy

\* days from 1969-01-01 to January 1st of year Y (every 4th year is leap
\* in 1969..2068)
DaysBeforeYear(Y) == 365 * (Y - 1969) + (((Y - 1) \div 4) - 492)

\* the year holding day n (from 1969-01-01): the 1461-day cycles start with
\* 1969 and end with their leap year
YearOfDay(n) == 1969 + 4 * (n \div 1461) + Min((n % 1461) \div 365, 3)

\* datetime.strptime('%05dT%04d' % (date, time), '%y%jT%H%M'), in minutes
\* since 1969-01-01T00:00; StrpFail where strptime raises ValueError: the
\* text must be exactly yy jjj T HH MM with jjj in 001..366, HH in 00..23,
\* MM in 00..59 (a 7-digit date or a 6-digit time leaves text unmatched).
strptime(date, time) ==
    IF /\ date \in 0..99999
       /\ (date % 1000) \in 1..366
       /\ time \in 0..9999
       /\ (time \div 100) \in 0..23
       /\ (time % 100) \in 0..59
    THEN (DaysBeforeYear(FullYear(date \div 1000)) + (date % 1000) - 1) * 1440
         + (time \div 100) * 60 + (time % 100)
    ELSE StrpFail

\* int(d.strftime('%y%j')), float(d.strftime('%H%M')) of the datetime that is
\* m minutes after 1969-01-01T00:00
strftime_yj(m) ==
    LET day == m \div 1440
        Y == YearOfDay(day)
    IN (Y % 100) * 1000 + (day - DaysBeforeYear(Y) + 1)

strftime_HM(m) == ((m % 1440) \div 60) * 100 + (m % 60)

\* '%H%M' text of a timedelta of `mins` minutes added to 1900-01-01T00:00
\* and its inverse, the timedelta of an HHMM number (Read.py:172, 337)
hhmm_of_delta(mins) == strftime_HM(mins)
delta_of_hhmm(hhmm) == (hhmm \div 100) * 60 + (hhmm % 100)

\* ------------------------------------------------------------------------
\* The irr file
\* ------------------------------------------------------------------------
\* padomain descriptors, as __readheader zips them
Dom(is, ie, js, je, bl, tl) ==
    [grid |-> 1, istart |-> is, iend |-> ie, jstart |-> js, jend |-> je,
     blay |-> bl, tlay |-> tl]

NI(d) == d.iend - d.istart + 1
NJ(d) == d.jend - d.jstart + 1
NK(d) == d.tlay - d.blay + 1
Cells(d) == NI(d) * NJ(d) * NK(d)

\* bytes of the header records, each framed by two 4-byte guards: run
\* message, time bounds, grid count, one grid, domain count, the domains,
\* reaction count (the grid list is fixed to one grid)
data_start_byte(f) == 88 + 24 + 12 + 36 + 12 + 36 * Len(f.doms) + 12

\* record_size: struct size of id_fmt "ifiiiii" plus nrxns floats;
\* padded_size adds the two guards
record_size(f) == 28 + 4 * f.nrxns
padded_size(f) == record_size(f) + 8

\* records of the domains before python index g, and of the whole file
RECURSIVE RecordsBefore(_, _, _)
RecordsBefore(doms, ntimes, g) ==
    IF g = 0 THEN 0
    ELSE RecordsBefore(doms, ntimes, g - 1) + ntimes * Cells(doms[g])

\* the domain (python index) holding record n of the file
DomainOf(doms, ntimes, n) ==
    CHOOSE g \in 0..(Len(doms) - 1) :
        RecordsBefore(doms, ntimes, g) <= n /\ n < RecordsBefore(doms, ntimes, g + 1)

\* Record n (from 0) of the data section: the writer emits, domain by
\* domain, time outermost, then j, then i, then k innermost.  bad names a
\* record whose k field was damaged (-1: none).
Written(doms, ftimes, nrxns, bad, n) ==
    LET g == DomainOf(doms, Len(ftimes), n)
        d == doms[g + 1]
        m == n - RecordsBefore(doms, Len(ftimes), g)
        ti == m \div Cells(d)
        r == m % Cells(d)
        ji == r \div (NI(d) * NK(d))
        ii == (r % (NI(d) * NK(d))) \div NK(d)
        ki == r % NK(d)
    IN [date |-> ftimes[ti + 1][1],
        time |-> ftimes[ti + 1][2],
        pagrid |-> g + 1,
        i |-> d.istart + ii,
        j |-> d.jstart + ji,
        k |-> IF n = bad THEN d.blay + ki + 1 ELSE d.blay + ki,
        data |-> Tab([c \in 1..nrxns |-> 1 + n * nrxns + (c - 1)], nrxns)]

FileRecords(f) == Len(f.records)
RecordAt(f, n) == f.records[n + 1]

\* the record index a byte position addresses, -1 if it is no record start
RecordIndex(f, p) ==
    IF /\ p >= data_start_byte(f)
       /\ (p - data_start_byte(f)) % padded_size(f) = 0
       /\ (p - data_start_byte(f)) \div padded_size(f) < FileRecords(f)
    THEN (p - data_start_byte(f)) \div padded_size(f)
    ELSE -1


\* ------------------------------------------------------------------------
\* irr: record counting (Read.py:183-245)
\* ------------------------------------------------------------------------
\* ad is self.activedomain, f.doms is self.padomains (python index pagrid)
krecords(ad, pagrid, k) == k - ad.blay

irecords(ad, pagrid, i) ==
    LET ni == i - ad.istart
        nk == krecords(ad, pagrid, ad.tlay + 1)
    IN ni * nk

jrecords(ad, pagrid, j) ==
    LET nj == j - ad.jstart
        ni == irecords(ad, pagrid, ad.iend + 1)
    IN nj * ni

\* irr.timerange: NSTEPS entries, start + i * step for i in 1..NSTEPS
TimeOf(m) == <<strftime_yj(m), strftime_HM(m)>>

\* the list built over range(0, NSTEPS) instead of range(1, NSTEPS + 1)
dates_from_start(tstart, tdiff, n) == Tab([x \in 1..n |-> TimeOf(tstart + tdiff * (x - 1))], n)

\* <<start + step, ..., start + n * step>> as (date, time) pairs
dates(tstart, tdiff, n) == Tab([x \in 1..n |-> TimeOf(tstart + tdiff * x)], n)

timerange(f, tstep, nsteps) ==
    dates(strptime(f.sdate, f.stime), delta_of_hhmm(tstep), nsteps)

\* list.index: python index of the first equal entry, -1 for ValueError
index(seq, x) ==
    IF \E n \in 1..Len(seq) : seq[n] = x
    THEN (CHOOSE n \in 1..Len(seq) : seq[n] = x /\ \A q \in 1..(n - 1) : seq[q] # x) - 1
    ELSE -1

timerecords(f, ad, tstep, nsteps, pagrid, dt) ==
    LET nsteps_ == index(timerange(f, tstep, nsteps), dt)
        nj == jrecords(ad, pagrid, f.doms[pagrid + 1].jend + 1)
    IN IF nsteps_ < 0 THEN -1 ELSE nsteps_ * nj

\* __recordposition: [err, pos].  The loop over the earlier domains calls
\* the bare name __gridrecords, which is no global: NameError as soon as
\* range(pagrid) is not empty.
recordposition(f, ad, tstep, nsteps, pagrid, date, time, i, j, k) ==
    IF pagrid > 0 THEN [err |-> "NameError", pos |-> 0]
    ELSE LET tr == timerecords(f, ad, tstep, nsteps, pagrid, <<date, time>>)
         IN IF tr < 0 THEN [err |-> "ValueError", pos |-> 0]
            ELSE [err |-> "none",
                  pos |-> (tr + jrecords(ad, pagrid, j) + irecords(ad, pagrid, i)
                           + krecords(ad, pagrid, k)) * padded_size(f)
                          + data_start_byte(f)]

\* ------------------------------------------------------------------------
\* irr.__init__ (Read.py:76-106) with __gettimestep (Read.py:154-181)
\* ------------------------------------------------------------------------
\* python's int() of a quotient: truncation towards zero
TruncDiv(a, b) ==
    IF (a >= 0) = (b > 0) THEN (IF a >= 0 THEN a ELSE -a) \div (IF b > 0 THEN b ELSE -b)
    ELSE -((IF a >= 0 THEN a ELSE -a) \div (IF b > 0 THEN b ELSE -b))

\* the record __gettimestep reads: the first one of the last j row
proberecord(f) ==
    RecordIndex(f, data_start_byte(f)
                   + jrecords(f.doms[1], 0, f.doms[1].jend) * padded_size(f))

\* the assertion of Read.py:181 compiled away
multiple_unchecked(tdiff, tstep) == TRUE

\* assert(multiple == int(multiple)): the header span is a whole number of
\* steps
multiple_ok(tdiff, tstep) == tdiff % tstep = 0

gettimestep(f) ==
    LET p == proberecord(f)
        tstart == strptime(f.sdate, f.stime)
        tone == strptime(RecordAt(f, p).date, RecordAt(f, p).time)
        tstep == tone - tstart
        tend == strptime(f.edate, f.etime)
        tdiff == tend - tstart
        fail(e, ts, ns) == [err |-> e, TSTEP |-> ts, NSTEPS |-> ns]
    IN IF p < 0 THEN fail("IOError", 0, 0)
       ELSE IF tstart = StrpFail \/ tone = StrpFail THEN fail("ValueError", 0, 0)
       ELSE IF tstep < 0 THEN fail("ValueError", 0, 0)
       ELSE IF tend = StrpFail THEN fail("ValueError", hhmm_of_delta(tstep), 0)
       ELSE IF tstep = 0 THEN fail("ZeroDivisionError", hhmm_of_delta(tstep), 0)
       ELSE IF ~multiple_ok(tdiff, tstep)
            THEN fail("AssertionError", hhmm_of_delta(tstep), TruncDiv(tdiff, tstep))
       ELSE [err |-> "none", TSTEP |-> hhmm_of_delta(tstep),
             NSTEPS |-> TruncDiv(tdiff, tstep)]

TFLAG == <<"TFLAG", 0>>
IRR(rxn) == <<"IRR", rxn>>
NoVars == <<>>
None == [none |-> TRUE]

\* tflag[:] = array(self.timerange()).reshape(self.NSTEPS, 1, 2): a negative
\* NSTEPS is no shape of the (empty) list
tflag_ok(nsteps) == nsteps >= 0

Open ==
    /\ st = "new"
    /\ \E g \in {gettimestep(file)}, ok \in BOOLEAN :
          /\ ok = (g.err = "none" /\ tflag_ok(g.NSTEPS))
          /\ TSTEP' = g.TSTEP
          /\ NSTEPS' = g.NSTEPS
          /\ err' = IF g.err # "none" THEN g.err
                    ELSE IF ~tflag_ok(g.NSTEPS) THEN "ValueError" ELSE "none"
          /\ st' = IF ok THEN "open" ELSE "failed"
          /\ variables' = IF ok THEN (TFLAG :> timerange(file, g.TSTEP, g.NSTEPS))
                          ELSE NoVars
          /\ pos' = IF proberecord(file) < 0 THEN pos
                    ELSE data_start_byte(file)
                         + (proberecord(file) + 1) * padded_size(file)
    /\ activedomain' = 0
    /\ op' = [name |-> "open", args |-> <<>>]
    /\ out' = None
    /\ UNCHANGED <<file, iprvars>>


\* ------------------------------------------------------------------------
\* irr.seek, irr.read, irr.seekandread (Read.py:247-285)
\* ------------------------------------------------------------------------
\* rffile.read(self.record_fmt) with the cursor at byte p: the record that
\* starts there, IOError when no record starts there
read(f, p) ==
    IF RecordIndex(f, p) < 0 THEN [err |-> "IOError", rec |-> None]
    ELSE [err |-> "none", rec |-> RecordAt(f, RecordIndex(f, p))]

\* self.activedomain is assigned before the position is computed, so it
\* changes even when __recordposition raises
Seek(pagrid, date, time, i, j, k) ==
    /\ st = "open"
    /\ \E rp \in {recordposition(file, file.doms[pagrid + 1], TSTEP, NSTEPS,
                                  pagrid, date, time, i, j, k)} :
          /\ activedomain' = pagrid
          /\ err' = rp.err
          /\ pos' = IF rp.err = "none" THEN rp.pos ELSE pos
    /\ op' = [name |-> "seek", args |-> <<pagrid, date, time, i, j, k>>]
    /\ out' = None
    /\ UNCHANGED <<file, st, TSTEP, NSTEPS, variables, iprvars>>

Read ==
    /\ st = "open"
    /\ \E r \in {read(file, pos)} :
          /\ err' = r.err
          /\ out' = r.rec
          /\ pos' = IF r.err = "none" THEN pos + padded_size(file) ELSE pos
    /\ op' = [name |-> "read",
              args |-> IF op.name = "seek" /\ err = "none" THEN op.args ELSE <<>>]
    /\ UNCHANGED <<file, st, TSTEP, NSTEPS, activedomain, variables, iprvars>>

\* seekandread as a function of the dataset: [err, rec, pos]
seekandread(f, tstep, nsteps, p, pagrid, date, time, i, j, k) ==
    LET rp == recordposition(f, f.doms[pagrid + 1], tstep, nsteps,
                             pagrid, date, time, i, j, k)
        r == read(f, rp.pos)
    IN IF rp.err # "none" THEN [err |-> rp.err, rec |-> None, pos |-> p]
       ELSE IF r.err # "none" THEN [err |-> r.err, rec |-> None, pos |-> rp.pos]
       ELSE [err |-> "none", rec |-> r.rec, pos |-> rp.pos + padded_size(f)]

SeekAndRead(pagrid, date, time, i, j, k) ==
    /\ st = "open"
    /\ \E r \in {seekandread(file, TSTEP, NSTEPS, pos, pagrid, date, time, i, j, k)} :
          /\ activedomain' = pagrid
          /\ err' = r.err
          /\ out' = r.rec
          /\ pos' = r.pos
    /\ op' = [name |-> "seekandread", args |-> <<pagrid, date, time, i, j, k>>]
    /\ UNCHANGED <<file, st, TSTEP, NSTEPS, variables, iprvars>>

\* ------------------------------------------------------------------------
\* irr.iterkeys, itervalues, iteritems (Read.py:287-301)
\* ------------------------------------------------------------------------
\* What draining iterkeys(pagrid) yields.  The k loop reads domain['kstart'],
\* which is no key of a padomain: KeyError on the first next() that reaches
\* it, i.e. when range(istart, iend) and range(jstart, jend) are not empty.
iterkeys(f, tstep, nsteps, pagrid) ==
    LET domain == f.doms[pagrid + 1]
        reached == /\ Len(timerange(f, tstep, nsteps)) > 0
                   /\ domain.istart < domain.iend
                   /\ domain.jstart < domain.jend
    IN IF reached THEN [err |-> "KeyError", items |-> <<>>]
       ELSE [err |-> "none", items |-> <<>>]

\* itervalues and iteritems return from inside their loop over iterkeys, at
\* its first element; iterkeys never yields one, so they return None or
\* pass on its KeyError
iterfirst(f, tstep, nsteps, pagrid) ==
    [err |-> iterkeys(f, tstep, nsteps, pagrid).err, items |-> None]

IterKeys(pagrid) ==
    /\ st = "open"
    /\ \E r \in {iterkeys(file, TSTEP, NSTEPS, pagrid)} :
          err' = r.err /\ out' = r.items
    /\ op' = [name |-> "iterkeys", args |-> <<pagrid>>]
    /\ UNCHANGED <<file, st, TSTEP, NSTEPS, activedomain, pos, variables, iprvars>>

IterValues(pagrid) ==
    /\ st = "open"
    /\ \E r \in {iterfirst(file, TSTEP, NSTEPS, pagrid)} :
          err' = r.err /\ out' = r.items
    /\ op' = [name |-> "itervalues", args |-> <<pagrid>>]
    /\ UNCHANGED <<file, st, TSTEP, NSTEPS, activedomain, pos, variables, iprvars>>

IterItems(pagrid) ==
    /\ st = "open"
    /\ \E r \in {iterfirst(file, TSTEP, NSTEPS, pagrid)} :
          err' = r.err /\ out' = r.items
    /\ op' = [name |-> "iteritems", args |-> <<pagrid>>]
    /\ UNCHANGED <<file, st, TSTEP, NSTEPS, activedomain, pos, variables, iprvars>>


\* ------------------------------------------------------------------------
\* irr.loadVars (Read.py:303-333)
\* ------------------------------------------------------------------------
\* the (date, time, i, j, k) the loop expects at its e-th read (from 0):
\* time outermost, then j, then i, then k, and the array index it stores at
loopkey(d, tr, e) ==
    LET ti == e \div Cells(d)
        r == e % Cells(d)
        ji == r \div (NI(d) * NK(d))
        ii == (r % (NI(d) * NK(d))) \div NK(d)
        ki == r % NK(d)
    IN [date |-> tr[ti + 1][1], time |-> tr[ti + 1][2],
        i |-> d.istart + ii, j |-> d.jstart + ji, k |-> d.blay + ki,
        at |-> <<ti, ki, ji, ii>>]

\* the five assertions on a record read by read_into
idsmatch(rec, key) ==
    /\ rec.i = key.i
    /\ rec.j = key.j
    /\ rec.k = key.k
    /\ rec.date = key.date
    /\ rec.time = key.time

\* the end clipped at the declared count itself instead of one past it
loadend_total(f, start, n) == Min(start + n, f.nrxns)

\* end = min(start + n, self.NRXNS + 1)
loadend(f, start, n) == Min(start + n, f.nrxns + 1)

\* range(start, end)
loadwindow(f, start, n) == start..(loadend(f, start, n) - 1)

\* the reads the loop completes before the first one that fails: a record
\* that cannot be read, or one whose fields fail an assertion
RECURSIVE readsdone(_, _, _, _, _, _)
readsdone(f, d, tr, p0, total, e) ==
    IF e >= total THEN total
    ELSE LET r == read(f, p0 + e * padded_size(f))
         IN IF r.err = "none" /\ idsmatch(r.rec, loopkey(d, tr, e))
            THEN readsdone(f, d, tr, p0, total, e + 1)
            ELSE e

\* variables[IRR(rxn)] = vals[rxn] for rxn in lo..hi
bindvars(vals, lo, hi) == [key \in {IRR(rxn) : rxn \in lo..hi} |-> vals[key[2]]] @@ NoVars

\* The whole of loadVars: [err, variables, pos].  The variables are cleared
\* and rebound to zero arrays before the first seek; each record read is
\* checked and then stored, so a failure leaves what was stored before it.
loadVarsFrom(f, d, nsteps, start, n, rp, done) ==
    LET total == nsteps * Cells(d)
        \* (self.NSTEPS,) + (LAY, ROW, COL) of self.dimensions
        shape == <<nsteps, NK(d), NJ(d), NI(d)>>
        recat(e) == read(f, rp.pos + e * padded_size(f))
        \* the read that stores at [ti, ki, ji, ii]
        eof(at) == ((at[1] * NJ(d) + at[3]) * NI(d) + at[4]) * NK(d) + at[2]
        stored(rxn, at) == IF rp.err = "none" /\ eof(at) < done
                           THEN recat(eof(at)).rec.data[rxn - 1 + 1]
                           ELSE 0
        channel(rxn) ==
            mkarray(shape, Tab([x \in 1..asize(shape) |->
                                   stored(rxn, unravel(shape, x - 1))], asize(shape)))
        end == loadend(f, start, n)
    IN [variables |-> bindvars([rxn \in start..(end - 1) |-> channel(rxn)],
                               start, end - 1),
        err |-> IF rp.err # "none" THEN rp.err
                ELSE IF done = total THEN "none"
                ELSE IF recat(done).err # "none" THEN recat(done).err
                ELSE "AssertionError",
        seekok |-> rp.err = "none",
        pos |-> IF rp.err # "none" THEN 0
                ELSE IF done = total THEN rp.pos + total * padded_size(f)
                ELSE rp.pos + done * padded_size(f) + record_size(f)]

\* the outcome once the seek's result rp and the expected times tr are known
loadVarsAt(f, d, nsteps, start, n, rp, tr) ==
    {loadVarsFrom(f, d, nsteps, start, n, rp, done) :
        done \in {readsdone(f, d, tr, rp.pos, nsteps * Cells(d), 0)}}

loadVars(f, tstep, nsteps, start, n) ==
    LET d == f.doms[1]
    IN CHOOSE r \in UNION
           {loadVarsAt(f, d, nsteps, start, n, rp, tr) :
               \* self.seek(pagrid = 0, i = istart, j = jstart, k = kstart):
               \* the defaults are date = start_date, time = start_time + TSTEP
               rp \in {recordposition(f, d, tstep, nsteps, 0, f.sdate, f.stime + tstep,
                                      d.istart, d.jstart, d.blay)},
               tr \in {timerange(f, tstep, nsteps)}} : TRUE

LoadVars(start, n) ==
    /\ st = "open"
    /\ \E r \in {loadVars(file, TSTEP, NSTEPS, start, n)} :
          /\ variables' = r.variables
          /\ err' = r.err
          /\ pos' = IF r.seekok THEN r.pos ELSE pos
    /\ activedomain' = 0
    /\ op' = [name |-> "loadVars", args |-> <<start, n>>]
    /\ out' = None
    /\ UNCHANGED <<file, st, TSTEP, NSTEPS, iprvars>>

\* ------------------------------------------------------------------------
\* irr.__var_get (Read.py:108-111), the callback of the variables container
\* ------------------------------------------------------------------------
\* int(key.split('_')[1]): a key without '_' has no second part
\* (IndexError).  Otherwise loadVars(rxni, 30), then self.variables[key].
VarGet(key) ==
    /\ st = "open"
    /\ IF key = TFLAG
       THEN /\ err' = "IndexError"
            /\ out' = None
            /\ UNCHANGED <<variables, pos, activedomain>>
       ELSE \E r \in {loadVars(file, TSTEP, NSTEPS, key[2], 30)} :
               /\ variables' = r.variables
               /\ err' = r.err
               /\ pos' = IF r.seekok THEN r.pos ELSE pos
               /\ out' = IF r.err = "none" THEN r.variables[key] ELSE None
               /\ activedomain' = 0
    /\ op' = [name |-> "var_get", args |-> <<key>>]
    /\ UNCHANGED <<file, st, TSTEP, NSTEPS, iprvars>>


\* ------------------------------------------------------------------------
\* The irr files the model opens
\* ------------------------------------------------------------------------
\* a file whose header bounds are start and start + n steps and whose n
\* time blocks are stamped start + step, ..., start + n * step: the model
\* writes each block's stamp at the end of its interval
Stamps(t0, stepmin, n) == Tab([x \in 1..n |-> TimeOf(t0 + stepmin * x)], n)

MkFile(start, stepmin, n, doms, nrxns, bad) ==
    LET t0 == strptime(start[1], start[2])
        ftimes == Stamps(t0, stepmin, n)
    IN [sdate |-> start[1], stime |-> start[2],
        edate |-> TimeOf(t0 + n * stepmin)[1],
        etime |-> TimeOf(t0 + n * stepmin)[2],
        doms |-> doms, nrxns |-> nrxns,
        records |-> Tab([x \in 1..RecordsBefore(doms, n, Len(doms)) |->
                             Written(doms, ftimes, nrxns, bad, x - 1)],
                        RecordsBefore(doms, n, Len(doms)))]

OneDomain == <<Dom(2, 3, 1, 3, 1, 2)>>
TwoDomains == <<Dom(2, 3, 1, 3, 1, 2), Dom(1, 1, 1, 2, 1, 1)>>
ColumnDomain == <<Dom(1, 1, 1, 1, 1, 2)>>

\* hourly files of 1..MaxSteps steps from midnight, two that run over
\* midnight, a half-hourly one and a whole day of a one-column domain
WellFormedFiles ==
    {MkFile(<<5185, 0>>, 60, n, TwoDomains, MaxRxns, -1) : n \in 1..MaxSteps}
    \cup {MkFile(<<5185, 2200>>, 60, MaxSteps, OneDomain, MaxRxns, -1),
          MkFile(<<5185, 2300>>, 60, 2, OneDomain, MaxRxns, -1),
          MkFile(<<5185, 0>>, 30, 2, OneDomain, MaxRxns, -1),
          MkFile(<<5185, 0>>, 60, 24, ColumnDomain, MaxRxns, -1)}

\* files with one record whose k field disagrees with its place
DamagedFiles == {MkFile(<<5185, 0>>, 60, 2, OneDomain, MaxRxns, b) : b \in {0, 5}}

\* headers that do not fit their records: an end that is no whole number of
\* steps after the start, a first block stamped with the start time itself,
\* and the bounds of the class docstring (YYYYJJJ, HHMMSS)
OddFiles ==
    {[MkFile(<<5185, 0>>, 60, 2, ColumnDomain, MaxRxns, -1) EXCEPT !.etime = 230],
     [MkFile(<<5185, 0>>, 60, 1, ColumnDomain, MaxRxns, -1)
        EXCEPT !.records = Tab([x \in 1..4 |-> Written(ColumnDomain,
                                   << <<5185, 0>>, <<5185, 100>> >>, MaxRxns, -1, x - 1)], 4)],
     [sdate |-> 2005185, stime |-> 0, edate |-> 2005185, etime |-> 240000,
      doms |-> ColumnDomain, nrxns |-> MaxRxns,
      records |-> Tab([x \in 1..2 |-> Written(ColumnDomain, << <<2005185, 100>> >>,
                                         MaxRxns, -1, x - 1)], 2)]}

IrrFiles == WellFormedFiles \cup DamagedFiles \cup OddFiles

WellFormed(f) == f \in WellFormedFiles

\* the cells of a domain
CellsOf(d) ==
    {<<i, j, k>> : i \in d.istart..d.iend, j \in d.jstart..d.jend, k \in d.blay..d.tlay}

\* the first and the last cell of domain g at time t
CornerKeys(g, d, t) ==
    {<<g, t[1], t[2], d.istart, d.jstart, d.blay>>,
     <<g, t[1], t[2], d.iend, d.jend, d.tlay>>}

\* a time that timerange() does not enumerate
OffKey(f) == <<0, f.sdate, 30, f.doms[1].istart, f.doms[1].jstart, f.doms[1].blay>>

\* the first and the last cell of every domain at the first and at the last
\* enumerated time, and a time that is not enumerated
EdgeKeys(f, tstep, nsteps) ==
    LET tr == timerange(f, tstep, nsteps)
    IN UNION {CornerKeys(g - 1, f.doms[g], tr[q]) :
                 g \in 1..Len(f.doms), q \in {x \in {1, Len(tr)} : Len(tr) > 0}}
       \cup {OffKey(f)}

\* the keys a caller asks for: every cell of the first domain at every
\* enumerated time, and the edge keys
Keys(f, tstep, nsteps) ==
    LET tr == timerange(f, tstep, nsteps)
    IN {<<0, tr[q][1], tr[q][2], c[1], c[2], c[3]>> :
            q \in 1..Len(tr), c \in CellsOf(f.doms[1])}
       \cup EdgeKeys(f, tstep, nsteps)

ValidKey(f, tstep, nsteps, key) ==
    /\ key[1] \in 0..(Len(f.doms) - 1)
    /\ \E q \in 1..nsteps : timerange(f, tstep, nsteps)[q] = <<key[2], key[3]>>
    /\ LET d == f.doms[key[1] + 1]
       IN /\ d.istart <= key[4] /\ key[4] <= d.iend
          /\ d.jstart <= key[5] /\ key[5] <= d.jend
          /\ d.blay <= key[6] /\ key[6] <= d.tlay

ReqKeys == Keys(file, TSTEP, NSTEPS)

\* ------------------------------------------------------------------------
\* ipr (Memmap.py): names are the tuples of their characters
\* ------------------------------------------------------------------------
\* proc_spc[:n] and proc_spc[n:] of python
upto(s, n) == SubSeq(s, 1, Min(n, Len(s)))
from(s, n) == SubSeq(s, n + 1, Len(s))

\* sep.join(parts) for two parts, '_'.join((proc, spc)) being join2("_", ...)
join2(sep, a, b) == a \o <<sep>> \o b

\* python index of x in a list holding it
indexof(seq, x) == (CHOOSE n \in 1..Len(seq) : seq[n] = x) - 1

contains(seq, x) == \E n \in 1..Len(seq) : seq[n] = x

\* the fields every record starts with, the process fields both profiles
\* share, and the fields every record ends with
HeadFields ==
    <<<<"S", "P", "A", "D">>, <<"D", "A", "T", "E">>, <<"T", "I", "M", "E">>,
      <<"S", "P", "C">>, <<"P", "A", "G", "R", "I", "D">>,
      <<"N", "E", "S", "T">>, <<"I">>, <<"J">>, <<"K">>>>
SharedProcs ==
    <<<<"I", "N", "I", "T">>, <<"C", "H", "E", "M">>, <<"E", "M", "I", "S">>,
      <<"P", "T", "E", "M", "I", "S">>, <<"P", "I", "G">>,
      <<"W", "A", "D", "V">>, <<"E", "A", "D", "V">>, <<"S", "A", "D", "V">>,
      <<"N", "A", "D", "V">>, <<"B", "A", "D", "V">>, <<"T", "A", "D", "V">>,
      <<"D", "I", "L">>, <<"W", "D", "I", "F">>, <<"E", "D", "I", "F">>,
      <<"S", "D", "I", "F">>, <<"N", "D", "I", "F">>, <<"B", "D", "I", "F">>,
      <<"T", "D", "I", "F">>, <<"D", "D", "E", "P">>, <<"W", "D", "E", "P">>>>
TailFields ==
    <<<<"F", "C", "O", "N", "C">>, <<"U", "C", "N", "V">>,
      <<"A", "V", "O", "L">>, <<"E", "P", "A", "D">>>>

AERCHEM == <<"A", "E", "R", "C", "H", "E", "M">>
INORGACHEM == <<"I", "N", "O", "R", "G", "A", "C", "H", "E", "M">>
ORGACHEM == <<"O", "R", "G", "A", "C", "H", "E", "M">>
AQACHEM == <<"A", "Q", "A", "C", "H", "E", "M">>
SPC == <<"S", "P", "C">>
TFLAGNAME == <<"T", "F", "L", "A", "G">>

\* the dict literals keyed 24 and 26 (Memmap.py:94-117 and :122); any other
\* key raises KeyError
profile_keys == {24, 26}
chem_fields(n) == IF n = 24 THEN <<AERCHEM>> ELSE <<INORGACHEM, ORGACHEM, AQACHEM>>

\* the variable key list built with the merged profile whatever the count
prcs_merged(n) ==
    SubSeq(HeadFields, 1, 3) \o SubSeq(HeadFields, 5, 9) \o SharedProcs
       \o <<AERCHEM>> \o TailFields

\* names of self.__ipr_record_type for a count in profile_keys
ipr_record_type(n) == HeadFields \o SharedProcs \o chem_fields(n) \o TailFields

\* prcs: the same list without 'SPC'
prcs(n) ==
    SubSeq(HeadFields, 1, 3) \o SubSeq(HeadFields, 5, 9) \o SharedProcs
       \o chem_fields(n) \o TailFields

\* ['_'.join(i) for i in cartesian(prcs, spcnames)] and the nine bare keys
mkvarkeys(ps, spcnames) ==
    Tab([x \in 1..(Len(ps) * Len(spcnames)) |-> join2("_", ps[((x - 1) \div Len(spcnames)) + 1],
                              spcnames[((x - 1) % Len(spcnames)) + 1])], Len(ps) * Len(spcnames))
    \o SubSeq(HeadFields, 1, 3) \o SubSeq(HeadFields, 5, 9) \o <<TFLAGNAME>>

\* ---- numpy views of the mapped records: shape, strides and offset, all
\* ---- counted in records
\* the C-order strides of a five-axis shape
strides_c(shape) ==
    <<shape[2] * shape[3] * shape[4] * shape[5], shape[3] * shape[4] * shape[5],
      shape[4] * shape[5], shape[5], 1>>

\* ndarray.reshape of the flat array of n mapped records: a view of the same
\* records, ValueError unless the shape holds exactly n
reshape_ok(n, shape) == n = shape[1] * strides_c(shape)[1]

reshape(n, shape) ==
    [shape |-> shape, strides |-> strides_c(shape), offset |-> 0]

\* a swap that is left out
swapaxes_none(a, x, y) == a

\* ndarray.swapaxes(x, y), axes counted from 0
swapaxes(a, x, y) ==
    [a EXCEPT !.shape = [a.shape EXCEPT ![x + 1] = a.shape[y + 1], ![y + 1] = a.shape[x + 1]],
              !.strides = [a.strides EXCEPT ![x + 1] = a.strides[y + 1],
                                            ![y + 1] = a.strides[x + 1]]]

\* a[:, s, :, :, :]: axis 1 is dropped at index s
take_spc(a, s) ==
    [shape |-> <<a.shape[1], a.shape[3], a.shape[4], a.shape[5]>>,
     strides |-> <<a.strides[1], a.strides[3], a.strides[4], a.strides[5]>>,
     offset |-> a.offset + s * a.strides[2]]

\* the record that index ix of a four-axis view addresses
recordof(v, ix) ==
    v.offset + ix[1] * v.strides[1] + ix[2] * v.strides[2]
             + ix[3] * v.strides[3] + ix[4] * v.strides[4]

\* memmap(...).reshape(T, nspc, ROW, COL, LAY).swapaxes(4, 3).swapaxes(2, 3)
memmaps_of(f) ==
    swapaxes(swapaxes(reshape(f.nrec, <<f.T, Len(f.spcnames), f.ROW, f.COL, f.LAY>>),
                      4, 3), 2, 3)

\* ipr.__init__ (Memmap.py:80-131): [err, rectype, varkeys, memmaps].  The
\* record type is chosen before the mapping is made; the key list is handed
\* over after it.
iprinit(f) ==
    LET n == Len(f.prcnames)
        shape == <<f.T, Len(f.spcnames), f.ROW, f.COL, f.LAY>>
    IN IF n \notin profile_keys
       THEN [err |-> "KeyError", rectype |-> <<>>, varkeys |-> <<>>, memmaps |-> None]
       ELSE IF ~reshape_ok(f.nrec, shape)
       THEN [err |-> "ValueError", rectype |-> ipr_record_type(n),
             varkeys |-> <<>>, memmaps |-> None]
       ELSE [err |-> "none", rectype |-> ipr_record_type(n),
             varkeys |-> mkvarkeys(prcs(n), f.spcnames), memmaps |-> memmaps_of(f)]

IprOpen ==
    /\ ist = "new"
    /\ \E r \in {iprinit(ifile)} :
          /\ ierr' = r.err
          /\ ist' = IF r.err = "none" THEN "open" ELSE "failed"
          /\ rectype' = r.rectype
          /\ varkeys' = r.varkeys
          /\ memmaps' = r.memmaps
          /\ mm' = IF r.err = "none" THEN "mapped" ELSE "unset"
    /\ iop' = [name |-> "open", arg |-> <<>>]
    /\ UNCHANGED <<ifile, released, closes, view, iout, irrvars>>

\* a variable of one field and one species index over a view of the records
FieldView(name, proc, s, a) ==
    [kind |-> "field", name |-> name, field |-> proc, spc |-> s,
     shape |-> take_spc(a, s).shape, strides |-> take_spc(a, s).strides,
     offset |-> take_spc(a, s).offset]

\* ipr.__variables (Memmap.py:146-159): [err, view].  self.__memmaps is read
\* only once a branch has matched: AttributeError when it was deleted.
variables_get(f, rt, status, a, proc_spc) ==
    LET hit(k) == /\ upto(proc_spc, Len(k)) = k
                  /\ contains(f.spcnames, from(proc_spc, Len(k) + 1))
        gone == [err |-> "AttributeError", view |-> None]
    IN IF contains(rt, proc_spc)
       THEN IF status # "mapped" THEN gone
            ELSE [err |-> "none",
                  view |-> FieldView(join2("_", proc_spc, f.spcnames[1]), proc_spc, 0, a)]
       ELSE IF proc_spc = TFLAGNAME
       THEN IF status # "mapped" THEN gone
            ELSE [err |-> "none", view |-> [kind |-> "tflag", name |-> TFLAGNAME]]
       ELSE IF \E n \in 1..Len(rt) : hit(rt[n])
       THEN LET k == rt[CHOOSE n \in 1..Len(rt) :
                            hit(rt[n]) /\ \A q \in 1..(n - 1) : ~hit(rt[q])]
            IN IF status # "mapped" THEN gone
               ELSE [err |-> "none",
                     view |-> FieldView(proc_spc, k,
                                        indexof(f.spcnames, from(proc_spc, Len(k) + 1)), a)]
       ELSE [err |-> "KeyError", view |-> None]

Lookup(name) ==
    /\ ist = "open"
    /\ \E r \in {variables_get(ifile, rectype, mm, memmaps, name)} :
          /\ ierr' = r.err
          /\ view' = r.view
    /\ iop' = [name |-> "lookup", arg |-> name]
    /\ iout' = None
    /\ UNCHANGED <<ifile, ist, rectype, varkeys, mm, memmaps, released, closes, irrvars>>

\* field `field` of physical record n of the data section
FieldAt(n, field) == [rec |-> n, field |-> field]

\* v[t, l, r, c] on the variable last returned: the view keeps its own
\* reference to the mapped buffer, whatever happened to the dataset
Access(ix) ==
    /\ view # None
    /\ view.kind = "field"
    /\ iout' = FieldAt(recordof(view, ix), view.field)
    /\ ierr' = "none"
    /\ iop' = [name |-> "access", arg |-> ix]
    /\ UNCHANGED <<ifile, ist, rectype, varkeys, mm, memmaps, released, closes, view,
                   irrvars>>

\* ipr.__del__ (Memmap.py:133-138).  Whether the array has a close() that
\* returns depends on the numpy of the build: where it has, the attribute is
\* deleted; where close() raises, or the attribute is gone, the bare except
\* swallows the error and nothing else happens.
Del ==
    /\ ist # "new"
    /\ closes < MaxCloses
    /\ \E closed \in BOOLEAN :
          /\ mm' = IF mm = "mapped" /\ closed THEN "deleted" ELSE mm
          /\ memmaps' = IF mm = "mapped" /\ closed THEN None ELSE memmaps
          /\ released' = IF mm = "mapped" /\ closed THEN released + 1 ELSE released
    /\ closes' = closes + 1
    /\ ierr' = "none"
    /\ iop' = [name |-> "del", arg |-> <<>>]
    /\ iout' = None
    /\ UNCHANGED <<ifile, ist, rectype, varkeys, view, irrvars>>

\* ---- the ipr files the model opens
O3 == <<"O", "3">>
NO == <<"N", "O">>

\* n process names of a given spelling, two species, a domain of 2 rows,
\* 3 columns and 2 layers, T time steps in the header's range and `short`
\* records missing at the end of the file
MkIpr(n, spelling, T, short) ==
    [prcnames |-> Tab([x \in 1..n |-> <<spelling, x>>], n),
     spcnames |-> <<O3, NO>>,
     ROW |-> 2, COL |-> 3, LAY |-> 2,
     T |-> T,
     nrec |-> T * 2 * 2 * 3 * 2 - short]

IprFiles ==
    {MkIpr(24, "CAMx", T, 0) : T \in 1..MaxBlocks}
    \cup {MkIpr(n, spelling, 1, 0) : n \in {24, 25, 26}, spelling \in {"CAMx", "other"}}
    \cup {MkIpr(0, "CAMx", 1, 0), MkIpr(24, "CAMx", 1, 1)}

\* the names a caller looks up: a field, one character and a species, for
\* fields and species that exist and that do not; bare names; nothing
ReqNames ==
    {join2(sep, F, S) :
        sep \in {"_", "x"},
        F \in {SharedProcs[2], AERCHEM, INORGACHEM, <<"F", "O", "O">>},
        S \in {O3, NO, <<"X", "X">>}}
    \cup {join2("_", SPC, O3), HeadFields[2], SharedProcs[2], TFLAGNAME, O3, <<>>}

\* the indices of the variable last returned
ViewIndices ==
    IF view # None /\ view.kind = "field" THEN indices(view.shape) ELSE {}

\* ------------------------------------------------------------------------
\* Initial states and the two specifications
\* ------------------------------------------------------------------------
IrrIdle ==
    /\ st = "new" /\ err = "none" /\ TSTEP = 0 /\ NSTEPS = 0
    /\ activedomain = 0 /\ pos = 0 /\ variables = NoVars
    /\ op = [name |-> "none", args |-> <<>>] /\ out = None

IprIdle ==
    /\ ist = "new" /\ ierr = "none" /\ rectype = <<>> /\ varkeys = <<>>
    /\ mm = "unset" /\ memmaps = None /\ released = 0 /\ closes = 0
    /\ view = None /\ iop = [name |-> "none", arg |-> <<>>] /\ iout = None

InitIrr ==
    /\ file \in IrrFiles
    /\ IrrIdle
    /\ ifile = None
    /\ IprIdle

\* record access: open, seek, read, seekandread and the iterators
NextIrr ==
    \/ Open
    \/ \E key \in ReqKeys : Seek(key[1], key[2], key[3], key[4], key[5], key[6])
    \/ Read
    \/ \E key \in ReqKeys : SeekAndRead(key[1], key[2], key[3], key[4], key[5], key[6])
    \/ \E g \in 0..(Len(file.doms) - 1) : IterKeys(g)
    \/ \E g \in 0..(Len(file.doms) - 1) : IterValues(g)
    \/ \E g \in 0..(Len(file.doms) - 1) : IterItems(g)

SpecIrr == InitIrr /\ [][NextIrr]_vars

\* the channel counts a caller asks loadVars for: one channel, a window that
\* ends at the last declared channel, and the 30 of __var_get
LoadCounts == {1, MaxRxns, 30}

\* the keys a variable is looked up by: varkeys of __init__ and TFLAG
VarKeys == {IRR(rxn) : rxn \in 1..file.nrxns} \cup {TFLAG}

\* variable loading: open, seek, loadVars and the lookups that call it
NextLoad ==
    \/ Open
    \/ \E key \in EdgeKeys(file, TSTEP, NSTEPS) :
          Seek(key[1], key[2], key[3], key[4], key[5], key[6])
    \/ \E start \in 1..file.nrxns, n \in LoadCounts : LoadVars(start, n)
    \/ \E key \in VarKeys : VarGet(key)

SpecLoad == InitIrr /\ [][NextLoad]_vars

InitIpr ==
    /\ ifile \in IprFiles
    /\ IprIdle
    /\ file = None
    /\ IrrIdle

\* the mapped reader: open, variable lookup, element access and __del__
NextIpr ==
    \/ IprOpen
    \/ \E name \in ReqNames : Lookup(name)
    \/ \E ix \in ViewIndices : Access(ix)
    \/ Del

SpecIpr == InitIpr /\ [][NextIpr]_vars

\* ------------------------------------------------------------------------
\* Properties of the irr reader
\* ------------------------------------------------------------------------
\* how many records the writer emitted before the record of a key
WrittenBefore(f, key) ==
    CHOOSE n \in 0..(FileRecords(f) - 1) :
        LET r == RecordAt(f, n)
        IN <<r.pagrid - 1, r.date, r.time, r.i, r.j, r.k>> = key

SeekDone == st = "open" /\ op.name = "seek"
ReadAfterSeek == st = "open" /\ op.name = "read" /\ op.args # <<>>

\* what C1 promises of a seek to a valid key and of the read that follows it
SeekLands ==
    /\ SeekDone =>
          /\ err = "none"
          /\ pos = data_start_byte(file) + WrittenBefore(file, op.args) * padded_size(file)
    /\ ReadAfterSeek =>
          /\ err = "none"
          /\ <<out.date, out.time, out.i, out.j, out.k>>
                = <<op.args[2], op.args[3], op.args[4], op.args[5], op.args[6]>>

\* C1: on a well-formed file, for every key with a valid domain index, an
\* enumerated (date, time) and i, j, k within that domain's bounds, seek puts
\* the cursor at data_start_byte + records_before_target * padded_size and
\* the read that follows returns the record with the key's date, time, i, j, k.
C1_SeekFindsRecord ==
    (WellFormed(file) /\ (SeekDone \/ ReadAfterSeek)
        /\ ValidKey(file, TSTEP, NSTEPS, op.args)) => SeekLands

\* the same for the keys of the first domain only, where range(pagrid) is
\* empty and __gridrecords is never named
SeekFindsFirstDomainRecord ==
    (WellFormed(file) /\ (SeekDone \/ ReadAfterSeek)
        /\ ValidKey(file, TSTEP, NSTEPS, op.args) /\ op.args[1] = 0) => SeekLands

LoadDone == st = "open" /\ op.name = "loadVars"

\* variable IRR_c is bound and holds, at the index of time q and cell, what
\* seekandread returns for that time and cell in channel c
Agrees(c, q, cell) ==
    LET t == timerange(file, TSTEP, NSTEPS)[q]
        d == file.doms[1]
        r == seekandread(file, TSTEP, NSTEPS, pos, 0, t[1], t[2], cell[1], cell[2], cell[3])
    IN /\ IRR(c) \in DOMAIN variables
       /\ r.err = "none"
       /\ aget(variables[IRR(c)],
               <<q - 1, cell[3] - d.blay, cell[2] - d.jstart, cell[1] - d.istart>>)
             = r.rec.data[c]

\* C3: after loadVars(start, n) on a well-formed file, for every channel c of
\* the loaded window and every key of domain 0, variable IRR_c at
\* [time_index, k - blay, j - jstart, i - istart] equals channel c of the
\* record that seekandread(0, date, time, i, j, k) returns.
C3_BulkAgreesWithSingle ==
    (WellFormed(file) /\ LoadDone) =>
        \A c \in loadwindow(file, op.args[1], op.args[2]), q \in 1..NSTEPS,
           cell \in CellsOf(file.doms[1]) : Agrees(c, q, cell)

\* the same when loadVars returned without raising
BulkAgreesWhenLoaded ==
    (WellFormed(file) /\ LoadDone /\ err = "none") =>
        \A c \in loadwindow(file, op.args[1], op.args[2]), q \in 1..NSTEPS,
           cell \in CellsOf(file.doms[1]) : Agrees(c, q, cell)

\* the elements of an array that a record was stored in (the data of the
\* model's records are never 0), and an array with some but not all stored
Stored(a) == {x \in 1..Len(a.flat) : a.flat[x] # 0}
PartlyFilled(a) == Stored(a) # {} /\ Stored(a) # 1..Len(a.flat)

\* a record of the first domain whose fields are not those of its place
Desynced(f) ==
    \E e \in 0..(NSTEPS * Cells(f.doms[1]) - 1) :
        ~idsmatch(RecordAt(f, e), loopkey(f.doms[1], timerange(f, TSTEP, NSTEPS), e))

\* C4: when a record read by loadVars does not carry the date, time, i, j, k
\* of its place, loadVars fails (AssertionError, the LayoutDesync of the
\* code) and no partly filled channel array is left in the variables.
C4_DesyncAbandonsBatch ==
    (LoadDone /\ Desynced(file)) =>
        /\ err = "AssertionError"
        /\ \A key \in DOMAIN variables :
              key[1] = "IRR" => ~PartlyFilled(variables[key])

\* the header bounds and the step between the header start and the stamp of
\* the record that __gettimestep reads, in minutes
HeaderStart(f) == strptime(f.sdate, f.stime)
HeaderEnd(f) == strptime(f.edate, f.etime)
ProbeStamp(f) == strptime(RecordAt(f, proberecord(f)).date, RecordAt(f, proberecord(f)).time)
InferredStep(f) == ProbeStamp(f) - HeaderStart(f)
Parsed(f) ==
    /\ proberecord(f) >= 0
    /\ StrpFail \notin {HeaderStart(f), HeaderEnd(f), ProbeStamp(f)}

\* time_step_count is (end - start) / inferred_step, and a span that is no
\* whole number of steps makes open fail
StepCountLaw ==
    /\ st = "open" =>
          /\ Parsed(file)
          /\ InferredStep(file) > 0
          /\ NSTEPS * InferredStep(file) = HeaderEnd(file) - HeaderStart(file)
    /\ (st # "new" /\ Parsed(file) /\ InferredStep(file) > 0
           /\ (HeaderEnd(file) - HeaderStart(file)) % InferredStep(file) # 0)
          => (st = "failed" /\ err = "AssertionError")

\* a header with the given bounds whose probed record is stamped HHMM 100
\* after the start time
DayHeader(f, sd, stm, ed, etm) ==
    /\ <<f.sdate, f.stime, f.edate, f.etime>> = <<sd, stm, ed, etm>>
    /\ proberecord(f) >= 0
    /\ RecordAt(f, proberecord(f)).time - f.stime = 100

tflag == variables[TFLAG]

\* one entry per time step, a step apart
TflagPerStep ==
    /\ TFLAG \in DOMAIN variables
    /\ Len(tflag) = NSTEPS
    /\ \A q \in 1..(NSTEPS - 1) :
          strptime(tflag[q + 1][1], tflag[q + 1][2])
             = strptime(tflag[q][1], tflag[q][2]) + delta_of_hhmm(TSTEP)

WriteOrder(f, g) ==
    LET d == f.doms[g + 1]
        tr == timerange(f, TSTEP, NSTEPS)
        keyat(e) == LET lk == loopkey(d, tr, e - 1)
                    IN <<g, lk.date, lk.time, lk.i, lk.j, lk.k>>
    IN Tab([e \in 1..(NSTEPS * Cells(d)) |-> keyat(e)], NSTEPS * Cells(d))

\* C7: for every domain, iterkeys, itervalues and iteritems produce one
\* element per (date, time, i, j, k) of the time range and the domain's
\* bounds (both ends included), in write order, on every call.
C7_IteratorsEnumerate ==
    (st = "open" /\ WellFormed(file)
        /\ op.name \in {"iterkeys", "itervalues", "iteritems"}) =>
        /\ err = "none"
        /\ out # None
        /\ Len(out) = Len(WriteOrder(file, op.args[1]))
        /\ op.name = "iterkeys" => out = WriteOrder(file, op.args[1])

\* the (date, time) of a key is one that timerange() enumerates
TimeEnumerated(key) ==
    \E q \in 1..NSTEPS : timerange(file, TSTEP, NSTEPS)[q] = <<key[2], key[3]>>

\* a step that is a seek to a (date, time) that is not enumerated
SeekOffRange == st = "open" /\ op'.name = "seek" /\ ~TimeEnumerated(op'.args)

\* C11: a seek whose (date, time) is not in the enumerated time range fails
\* with the lookup's error (ValueError of list.index, the TimeNotFound of
\* the code) and leaves the file cursor and the active domain as they were
\* before the call.
C11_FailedSeekLeavesState ==
    [][SeekOffRange =>
          /\ err' = "ValueError"
          /\ pos' = pos
          /\ activedomain' = activedomain]_vars

\* what holds of such a seek: it raises and the cursor stays where it was
FailedSeekKeepsCursor ==
    [][SeekOffRange => (err' # "none" /\ pos' = pos)]_vars

\* and a seek into the first domain raises the lookup's error
FailedSeekRaisesLookupError ==
    [][(SeekOffRange /\ op'.args[1] = 0) => err' = "ValueError"]_vars

\* the channels of [start, start + n) among the declared ones
ClippedWindow(f, start, n) == {c \in 1..f.nrxns : start <= c /\ c < start + n}

\* the channels bound in the variables
Channels == {key[2] : key \in {x \in DOMAIN variables : x[1] = "IRR"}}

\* the slot of the record buffer that a stored value was written at: the
\* writer puts 1 + record * nrxns + slot at each slot
SlotOf(f, v) == (v - 1) % f.nrxns

\* C12: after loadVars(start, n) with 1 <= start <= reaction_count and
\* n >= 1 the channels bound are exactly those of [start, start + n) among
\* 1..reaction_count (none beyond the declared count, none of the window
\* left out), every value stored in channel c comes from slot c - 1 of a
\* record, and when loadVars returns every element of every channel of the
\* window is stored.
C12_WindowClipped ==
    LoadDone =>
        /\ Channels = ClippedWindow(file, op.args[1], op.args[2])
        /\ \A c \in Channels : \A x \in Stored(variables[IRR(c)]) :
               SlotOf(file, variables[IRR(c)].flat[x]) = c - 1
        /\ err = "none" =>
               \A c \in Channels :
                  Stored(variables[IRR(c)]) = 1..Len(variables[IRR(c)].flat)

\* a returned loadVars(MaxRxns, 30): the window runs past the declared count
C12_Witness ==
    /\ LoadDone /\ err = "none" /\ op.args = <<MaxRxns, 30>>
    /\ file.nrxns = MaxRxns
    /\ Channels = {MaxRxns}
    /\ Stored(variables[IRR(MaxRxns)]) # {}

VarGetDone == st = "open" /\ op.name = "var_get"

\* C13: after any sequence of variable lookups on an open irr dataset the
\* TFLAG variable created at open is still among the variables, and so is
\* the IRR_k key that was requested last.
C13_TflagSurvivesLookups ==
    VarGetDone =>
        /\ TFLAG \in DOMAIN variables
        /\ op.args[1] # TFLAG => op.args[1] \in DOMAIN variables

\* what holds: TFLAG leaves the variables in a step that runs loadVars and
\* no step brings it back, and the requested IRR_k key is bound after its
\* lookup
TflagLostByLoad ==
    [][(TFLAG \in DOMAIN variables /\ TFLAG \notin DOMAIN variables')
          => op'.name \in {"loadVars", "var_get"}]_vars

TflagNeverRestored ==
    [][(st = "open" /\ TFLAG \notin DOMAIN variables)
          => TFLAG \notin DOMAIN variables']_vars

RequestedKeyBound ==
    (VarGetDone /\ op.args[1] # TFLAG) =>
        /\ op.args[1] \in DOMAIN variables
        /\ TFLAG \notin DOMAIN variables

\* ------------------------------------------------------------------------
\* Properties of the ipr reader
\* ------------------------------------------------------------------------
Accessed == iop.name = "access"

\* C2: for every t, s, r, c, l within the extents, element [t, l, r, c] of
\* the (TSTEP, LAY, ROW, COL) view of variable F_S, S being species s, is
\* field F of physical record
\* t * records_per_timestep + ((s * n_rows + r) * n_cols + c) * n_layers + l.
C2_ViewIndexing ==
    Accessed =>
        \A n \in 1..Len(rectype), s \in 0..(Len(ifile.spcnames) - 1) :
            view.name = join2("_", rectype[n], ifile.spcnames[s + 1]) =>
                LET t == iop.arg[1]
                    l == iop.arg[2]
                    r == iop.arg[3]
                    c == iop.arg[4]
                    records_per_timestep ==
                        Len(ifile.spcnames) * ifile.ROW * ifile.COL * ifile.LAY
                IN /\ view.shape = <<ifile.T, ifile.LAY, ifile.ROW, ifile.COL>>
                   /\ iout = FieldAt(t * records_per_timestep
                                       + ((s * ifile.ROW + r) * ifile.COL + c) * ifile.LAY + l,
                                     rectype[n])

\* CHEM_NO[1, 1, 1, 2] of a two-step file is CHEM of record 24 + 23
C2_Witness ==
    /\ Accessed
    /\ view.name = join2("_", SharedProcs[2], NO)
    /\ iop.arg = <<1, 1, 1, 2>>
    /\ iout = FieldAt(47, SharedProcs[2])

\* a schema field name, '_' and a known species name
Joined(name) ==
    \E n \in 1..Len(rectype), q \in 1..Len(ifile.spcnames) :
        name = join2("_", rectype[n], ifile.spcnames[q])

\* C8: a lookup by a name that is neither a physical field name nor TFLAG
\* succeeds exactly when the name is a schema field name F joined to a known
\* species name S, and then returns field F at the index of S; every other
\* name fails with KeyError (UnknownVariable) and returns nothing.
C8_LookupExactlyJoined ==
    (ist = "open" /\ mm = "mapped" /\ iop.name = "lookup"
        /\ ~contains(rectype, iop.arg) /\ iop.arg # TFLAGNAME) =>
        IF Joined(iop.arg)
        THEN /\ ierr = "none"
             /\ view # None
             /\ iop.arg = join2("_", view.field, ifile.spcnames[view.spc + 1])
        ELSE /\ ierr = "KeyError"
             /\ view = None

\* the same with any one character between F and S
LookupAnySeparator ==
    (ist = "open" /\ mm = "mapped" /\ iop.name = "lookup"
        /\ ~contains(rectype, iop.arg) /\ iop.arg # TFLAGNAME) =>
        IF \E sep \in {"_", "x"}, n \in 1..Len(rectype), q \in 1..Len(ifile.spcnames) :
              iop.arg = join2(sep, rectype[n], ifile.spcnames[q])
        THEN ierr = "none" /\ view # None
        ELSE ierr = "KeyError" /\ view = None

\* the chemistry fields of a list of names, and of the keys of a species
ChemOf(names) == {F \in {AERCHEM, INORGACHEM, ORGACHEM, AQACHEM} : contains(names, F)}
ChemKeysOf(keys, S) ==
    {F \in {AERCHEM, INORGACHEM, ORGACHEM, AQACHEM} : contains(keys, join2("_", F, S))}

\* C9: the record profile depends on the number of process names only: 24
\* select the schema with the one AERCHEM channel, 26 the schema with
\* INORGACHEM, ORGACHEM and AQACHEM, any other count makes open fail with
\* KeyError (UnsupportedProcessChannelCount); the variable keys are built
\* with the profile of the record schema.
C9_ProfileByCount ==
    ist # "new" =>
        /\ Len(ifile.prcnames) = 24 => ChemOf(rectype) = {AERCHEM}
        /\ Len(ifile.prcnames) = 26 => ChemOf(rectype) = {INORGACHEM, ORGACHEM, AQACHEM}
        /\ Len(ifile.prcnames) \notin {24, 26} =>
              /\ ist = "failed"
              /\ rectype = <<>> /\ varkeys = <<>>
              /\ iop.name = "open" => ierr = "KeyError"
        /\ ist = "open" =>
              \A q \in 1..Len(ifile.spcnames) :
                  ChemKeysOf(varkeys, ifile.spcnames[q]) = ChemOf(rectype)

C9_Witness ==
    /\ ist = "open"
    /\ Len(ifile.prcnames) = 26
    /\ ifile.prcnames[1][1] = "other"
    /\ contains(rectype, ORGACHEM)
    /\ contains(varkeys, join2("_", ORGACHEM, NO))

\* C10: the mapping is released exactly once, at the first close; a later
\* close is a no-op that raises nothing; an access to a variable view once
\* the dataset is closed raises an error and returns no data.
C10_CloseReleasesAndInvalidates ==
    /\ (ist = "open" /\ closes >= 1) => released = 1
    /\ iop.name = "del" => ierr = "none"
    /\ (closes >= 1 /\ Accessed) => (ierr # "none" /\ iout = None)

\* what __del__ does keep: it never raises and deletes at most once
CloseNeverRaises ==
    /\ released <= 1
    /\ iop.name = "del" => ierr = "none"

====
